---- MODULE Spec2Model ----
(***************************************************************************)
(* Recommendation microservice: the three HTTP operations of               *)
(* app/routes/recommendation.py and the accessors of app/db.py, over the   *)
(* two collections `products` and `recommendations`.                       *)
(*                                                                         *)
(* A character string is a sequence of one-character strings, so that the *)
(* conversions the code performs on identifiers and on exception messages  *)
(* (int(), ObjectId(), str(), lower(), `in`) are computed and not assumed. *)
(* Scores are counted in tenths: 10 stands for 1.0.                        *)
(***************************************************************************)
EXTENDS Integers, Sequences, FiniteSets, TLC

(***************************************************************************)
(* Bounds of the model.                                                    *)
(***************************************************************************)
\* How many recommendation documents are ever inserted.
MaxRecs == 2

\* How many products are deleted out of band.
MaxDeleted == 1

(***************************************************************************)
(* Text.                                                                   *)
(***************************************************************************)
Digits == <<"0", "1", "2", "3", "4", "5", "6", "7", "8", "9">>

UpperAlpha == <<"A", "B", "C", "D", "E", "F", "G", "H", "I", "J", "K", "L", "M", "N", "O", "P", "Q", "R", "S", "T", "U", "V", "W", "X", "Y", "Z">>

LowerAlpha == <<"a", "b", "c", "d", "e", "f", "g", "h", "i", "j", "k", "l", "m", "n", "o", "p", "q", "r", "s", "t", "u", "v", "w", "x", "y", "z">>

Range(s) == {s[i] : i \in 1..Len(s)}

DigitSet == Range(Digits)

UpperSet == Range(UpperAlpha)

HexSet == DigitSet \cup {"a", "b", "c", "d", "e", "f"} \cup {"A", "B", "C", "D", "E", "F"}

\* str.lower() on one character.
LowerChar(c) ==
    IF c \in UpperSet
    THEN LowerAlpha[CHOOSE i \in 1..Len(UpperAlpha) : UpperAlpha[i] = c]
    ELSE c

\* str.lower()
Lower(s) == [i \in 1..Len(s) |-> LowerChar(s[i])]

\* `sub in s` on strings.
Contains(s, sub) ==
    \E i \in 1..(Len(s) - Len(sub) + 1) : SubSeq(s, i, i + Len(sub) - 1) = sub

\* str.strip() for blanks.
Strip(s) ==
    LET idx == {i \in 1..Len(s) : s[i] # " "}
    IN  IF idx = {} THEN <<>>
        ELSE SubSeq(s, CHOOSE i \in idx : \A j \in idx : i <= j,
                       CHOOSE i \in idx : \A j \in idx : i >= j)

\* Python's None: a value different from every character string.
Null == <<"None">>

(***************************************************************************)
(* Identifiers.  A native key of the store is an integer (its sign and     *)
(* its decimal digits without leading zeros) or a 12-byte ObjectId (its    *)
(* 24 lower-case hex digits).                                              *)
(***************************************************************************)
IntKey(neg, digits) == [kind |-> "int", neg |-> neg, val |-> digits]

OidKey(hex) == [kind |-> "oid", neg |-> FALSE, val |-> hex]

\* The part of an integer literal after the blanks and the sign are removed.
IntBody(s) ==
    LET t == Strip(s)
    IN  IF Len(t) > 0 /\ t[1] \in {"+", "-"} THEN Tail(t) ELSE t

\* int(s) raises ValueError unless s is an optional sign and decimal digits,
\* single underscores allowed between digits, blanks allowed around.
IntParses(s) ==
    LET b == IntBody(s)
    IN  /\ Len(b) > 0
        /\ \A i \in 1..Len(b) : b[i] \in DigitSet \cup {"_"}
        /\ b[1] # "_"
        /\ b[Len(b)] # "_"
        /\ \A i \in 1..(Len(b) - 1) : ~(b[i] = "_" /\ b[i + 1] = "_")

\* The decimal digits of a natural number without its leading zeros.
Normalize(ds) ==
    LET nz == {i \in 1..Len(ds) : ds[i] # "0"}
    IN  IF nz = {} THEN <<"0">>
        ELSE SubSeq(ds, CHOOSE i \in nz : \A j \in nz : i <= j, Len(ds))

\* int(s), for a string that parses: Python integers are unbounded.
PyInt(s) ==
    LET t  == Strip(s)
        ds == Normalize(SelectSeq(IntBody(s), LAMBDA c : c # "_"))
    IN  IntKey(t[1] = "-" /\ ds # <<"0">>, ds)

\* ObjectId(s) raises InvalidId unless s is 24 hex digits.
OidParses(s) == Len(s) = 24 /\ \A i \in 1..Len(s) : s[i] \in HexSet

\* ObjectId(s), for a string that parses.
PyObjectId(s) == OidKey(Lower(s))

DigitVal(c) == CHOOSE n \in 0..9 : Digits[n + 1] = c

\* a <= b for two naturals given by their normalized digits.
DigitsLE(a, b) ==
    \/ Len(a) < Len(b)
    \/ /\ Len(a) = Len(b)
       /\ \/ a = b
          \/ \E i \in 1..Len(a) :
                /\ \A j \in 1..(i - 1) : a[j] = b[j]
                /\ DigitVal(a[i]) < DigitVal(b[i])

Int64Max == <<"9", "2", "2", "3", "3", "7", "2", "0", "3", "6", "8", "5", "4", "7", "7", "5", "8", "0", "7">>

Int64MinAbs == <<"9", "2", "2", "3", "3", "7", "2", "0", "3", "6", "8", "5", "4", "7", "7", "5", "8", "0", "8">>

\* BSON encodes an integer in at most 8 bytes; the driver raises
\* OverflowError when asked to send a larger one.
Encodable(key) ==
    \/ key.kind = "oid"
    \/ /\ key.kind = "int"
       /\ IF key.neg THEN DigitsLE(key.val, Int64MinAbs) ELSE DigitsLE(key.val, Int64Max)

\* str(key)
KeyStr(key) == IF key.kind = "int" /\ key.neg THEN <<"-">> \o key.val ELSE key.val

(***************************************************************************)
(* Sample values the requests and the stored documents are drawn from.     *)
(***************************************************************************)
\* "1": an integer identifier, the key of a bulk-loaded product.
S1 == <<"1">>

\* Two generated identifiers, as in example_crud_usage.py.
HexA == <<"6", "7", "0", "8", "b", "1", "2", "3", "4", "5", "6", "7", "8", "9", "a", "b", "c", "d", "e", "f", "0", "0", "0", "1">>

HexB == <<"6", "7", "0", "8", "b", "1", "2", "3", "4", "5", "6", "7", "8", "9", "a", "b", "c", "d", "e", "f", "9", "9", "9", "9">>

\* A generated identifier whose 24 hex digits are all decimal digits.
Dec24 == <<"1", "1", "1", "1", "1", "1", "1", "1", "1", "1", "1", "1", "1", "1", "1", "1", "1", "1", "1", "1", "1", "1", "1", "1">>

\* "9223372036854775808": decimal digits, one more than the largest 64-bit integer.
Big == <<"9", "2", "2", "3", "3", "7", "2", "0", "3", "6", "8", "5", "4", "7", "7", "5", "8", "0", "8">>

\* "999": an integer identifier no product is stored under.
S999 == <<"9", "9", "9">>

\* Two strings of neither format.
BadId == <<"z", "z">>

NotFoundId == <<"N", "o", "t", " ", "F", "o", "u", "n", "d">>

Empty == <<>>

\* Messages of exceptions the driver raises when a store call fails.
StoreErrors ==
    { <<"c", "o", "n", "n", "e", "c", "t", "i", "o", "n", " ", "r", "e", "f", "u", "s", "e", "d">>,
      <<"n", "s", " ", "n", "o", "t", " ", "f", "o", "u", "n", "d">>,
      <<"I", "n", "v", "a", "l", "i", "d", " ", "n", "a", "m", "e", "s", "p", "a", "c", "e">> }

\* The store call that fails in a request (at = 0: none) and the message of
\* the exception it raises.
NoFault == [at |-> 0, msg |-> Null]

Faults(n, msgs) == {NoFault} \cup {[at |-> k, msg |-> m] : k \in 1..n, m \in msgs}

\* The one message used where the handler does not read the text.
ConnectionRefused == <<"c", "o", "n", "n", "e", "c", "t", "i", "o", "n", " ", "r", "e", "f", "u", "s", "e", "d">>

\* The message the k-th store call of a request fails with, Null when it succeeds.
FaultAt(flt, k) == IF flt.at = k THEN flt.msg ELSE Null

PostProductIds == {S1, S999, HexA, HexB, BadId, NotFoundId}

PostTargets == {Null, Empty, S1, HexA}

\* Score and reason of a request: in range, out of range, and an empty reason.
Payloads ==
    { [score |-> 10, reason |-> <<"r">>], [score |-> 11, reason |-> <<"r">>],
      [score |-> 0, reason |-> <<>>] }

\* HexA written with upper-case hex digits: the same ObjectId.
HexAUpper == <<"6", "7", "0", "8", "B", "1", "2", "3", "4", "5", "6", "7", "8", "9", "A", "B", "C", "D", "E", "F", "0", "0", "0", "1">>

PathIds == {S1, HexA, HexAUpper, HexB, BadId, Dec24, Big}

\* The limit parameter of GET /recommendations: the smallest documented
\* value, the default, and one above the documented range 1-100.
Limits == {1, 10, 101}

\* Python's None as the value of the category parameter.
NoCategory == "None"

\* The category parameter: absent, the empty string, two categories.
Categories == {NoCategory, "", "x", "y"}

\* `if category:` None and "" are false.
CategoryGiven(category) == category # NoCategory /\ category # ""

\* The products loaded out of band: one under an integer key, two under
\* generated keys.
Product(key, name, category, price) ==
    [_id |-> key, name |-> name, category |-> category, price |-> price]

InitialProducts ==
    { Product(PyInt(S1), "A", "x", 10),
      Product(PyObjectId(HexA), "B", "x", 20),
      Product(PyObjectId(HexB), "C", "y", 30) }

\* The n-th identifier the store generates for an inserted document.
GeneratedId(n) ==
    OidKey(<<"6", "5", "f", "0", "0", "0", "0", "0", "0", "0", "0", "0", "0", "0", "0", "0", "0", "0", "0", "0", "0", "0", "0">> \o <<Digits[n + 1]>>)

Stamp == <<"t">>

\* A recommendation document as the callers of the accessor build it.
RecDoc(product_id, target, score, type, category) ==
    [product_id |-> product_id, target_product_id |-> target, score |-> score,
     reason |-> <<"r">>, type |-> type, created_at |-> Stamp, category |-> category,
     updated_at |-> Null]

\* Documents handed to RecommendationCRUD.create_recommendation directly.
CrudDocs ==
    { RecDoc(S1, Null, 9, "general", "x"),
      RecDoc(HexB, S1, 9, "specific", "y"),
      RecDoc(HexA, Null, 12, "specific", "x"),
      RecDoc(S1, HexA, 9, "specific", "x") }

\* update_data handed to RecommendationCRUD.update_recommendation.
CrudPatches == { [score |-> 15, type |-> "specific"] }

\* Arguments of the listing accessors: limits (positive), targets.
AccessorLimits == {1, 3}

AccessorTargets == {S1, HexA}

AccessorSkips == {0, 1}

RecIdStrings == {KeyStr(GeneratedId(n)) : n \in 1..MaxRecs} \cup {BadId}

(***************************************************************************)
(* State.                                                                  *)
(***************************************************************************)
VARIABLES
    products,         \* the products collection: a set of documents
    recommendations,  \* the recommendations collection, in insertion order
    nextId,           \* how many identifiers the store has generated, plus one
    last,             \* the last operation: its request and its outcome
    client,           \* db_manager.client: None, or a client and whether it is open
    database          \* db_manager.database: None, or the database of a client

vars == <<products, recommendations, nextId, last, client, database>>

\* The connection manager's fields.
conn == <<client, database>>

\* No response is waiting to be sent.
Idle == last.op = "none"

(***************************************************************************)
(* The store gateway.                                                      *)
(***************************************************************************)
\* find_one({"_id": key}): the documents under that key, none or one.
FindOne(docs, key) == {d \in docs : d._id = key}

\* The document of a non-empty find_one result.
TheDoc(docs) == CHOOSE d \in docs : TRUE

\* The first n elements of a sequence (cursor.limit(n).to_list(n), n > 0).
Take(s, n) == IF Len(s) <= n THEN s ELSE SubSeq(s, 1, n)

\* The orders of the positions idx by non-increasing score.
ScoreOrders(recs, idx, n) ==
    {f \in [1..n -> idx] :
        /\ \A i, j \in 1..n : i # j => f[i] # f[j]
        /\ \A i, j \in 1..n : i < j => recs[f[i]].score >= recs[f[j]].score}

\* find(filter).sort("score", -1): the documents at the positions idx in
\* every order of non-increasing score; the order among equal scores is
\* the store's own and is not specified.
SortedByScore(recs, idx) ==
    {[i \in DOMAIN f |-> recs[f[i]]] : f \in ScoreOrders(recs, idx, Cardinality(idx))}

(***************************************************************************)
(* Accessors (app/db.py).                                                  *)
(***************************************************************************)
\* The outcome of an accessor call: the documents returned or the message
\* of the exception raised, and how many store calls were issued.
Raise(msg, calls) == [ok |-> FALSE, docs |-> {}, err |-> msg, calls |-> calls]

Return(docs) == [ok |-> TRUE, docs |-> docs, err |-> Null, calls |-> 1]

InvalidProductPrefix == <<"I", "n", "v", "a", "l", "i", "d", " ", "p", "r", "o", "d", "u", "c", "t", " ", "I", "D", " ", "f", "o", "r", "m", "a", "t", ":", " ">>

ProductNotFoundPrefix == <<"P", "r", "o", "d", "u", "c", "t", " ", "n", "o", "t", " ", "f", "o", "u", "n", "d", " ", "w", "i", "t", "h", " ", "I", "D", ":", " ">>

\* `if not product: raise Exception("Product not found with ID: ...")`
ProductOrRaise(found, product_id) ==
    IF found = {} THEN Raise(ProductNotFoundPrefix \o product_id, 1) ELSE Return(found)

\* A lookup that never misses: it answers with some stored product.
ProductCRUD_get_product_by_id_AnyProduct(prods, product_id, flt) ==
    Return({CHOOSE p \in prods : TRUE})

\* ProductCRUD.get_product_by_id: ObjectId() only; flt is the message the
\* find_one call fails with, Null when the store answers.
ProductCRUD_get_product_by_id(prods, product_id, flt) ==
    IF ~OidParses(product_id) THEN Raise(InvalidProductPrefix \o product_id, 0)
    ELSE IF flt # Null THEN Raise(flt, 1)
    ELSE ProductOrRaise(FindOne(prods, PyObjectId(product_id)), product_id)

\* The filter without the test of the type.
GeneralFilter_AnyType(recs, category) ==
    {i \in 1..Len(recs) : CategoryGiven(category) => recs[i].category = category}

\* The filter of get_general_recommendations: type general and, for a
\* truthy category, that category.
GeneralFilter(recs, category) ==
    {i \in 1..Len(recs) :
        /\ recs[i].type = "general"
        /\ (CategoryGiven(category) => recs[i].category = category)}

\* RecommendationCRUD.get_general_recommendations: the result sequences the
\* store may answer with.
RecommendationCRUD_get_general_recommendations(recs, limit, category) ==
    {Take(s, limit) : s \in SortedByScore(recs, GeneralFilter(recs, category))}

(***************************************************************************)
(* Response models (app/routes/recommendation.py).                         *)
(***************************************************************************)
\* ProductInfo(...) raises a validation error unless price >= 0.
ProductInfoValid(p) == p.price >= 0

ProductInfo(p) ==
    [id |-> KeyStr(p._id), name |-> p.name, category |-> p.category, price |-> p.price]

\* RecommendationResponse(...) raises a validation error unless 0 <= score <= 1.
RecommendationResponseValid(score) == score >= 0 /\ score <= 10

RecommendationResponse(id, p, score, reason, created_at) ==
    [id |-> id, product |-> ProductInfo(p), score |-> score, reason |-> reason,
     created_at |-> created_at]

\* The response record of a stored recommendation and its product document.
ResponseOf(rec, p) ==
    RecommendationResponse(KeyStr(rec._id), p, rec.score, rec.reason, rec.created_at)

\* Both response models accept the values.
ModelsValid(rec, p) == ProductInfoValid(p) /\ RecommendationResponseValid(rec.score)

\* CreateRecommendationRequest: score in [0, 1], reason of length >= 1.
ScoreInRange(score) == score >= 0 /\ score <= 10

CreateRecommendationRequestValid(req) ==
    ScoreInRange(req.score) /\ Len(req.reason) >= 1

\* The truth value of an Optional[str]: None and "" are false.
Truthy(s) == s # Null /\ s # Empty

(***************************************************************************)
(* GET /recommendations                                                    *)
(***************************************************************************)
\* One turn of the enrichment loop of get_recommendations, r being the
\* outcome of get_product_by_id: the record of rec, or nothing when the
\* lookup or a response model raised (`continue`).
GeneralEntry(r, rec) ==
    IF r.ok /\ ModelsValid(rec, TheDoc(r.docs)) THEN <<ResponseOf(rec, TheDoc(r.docs))>>
    ELSE <<>>

RECURSIVE EnrichGeneral(_, _, _, _)
\* The enrichment loop from the k-th fetched recommendation on; the lookup
\* of the k-th one is store call 1 + k of the request.
EnrichGeneral(prods, fetched, flt, k) ==
    IF k > Len(fetched) THEN <<>>
    ELSE GeneralEntry(ProductCRUD_get_product_by_id(prods, fetched[k].product_id,
                                                    FaultAt(flt, 1 + k)), fetched[k])
             \o EnrichGeneral(prods, fetched, flt, k + 1)

\* The response of get_recommendations; store call 1 is the fetch.
GetRecommendationsResponse(prods, fetched, flt) ==
    IF FaultAt(flt, 1) # Null
    THEN [status |-> 500, detail |-> "Internal server error", body |-> <<>>, fetched |-> <<>>]
    ELSE [status |-> 200, detail |-> "", body |-> EnrichGeneral(prods, fetched, flt, 1),
          fetched |-> fetched]

get_recommendations ==
    /\ Idle
    /\ \E limit \in Limits, category \in Categories :
         \E fetched \in RecommendationCRUD_get_general_recommendations(recommendations, limit, category) :
           \E flt \in Faults(1 + Len(fetched), {ConnectionRefused}) :
             \E resp \in {GetRecommendationsResponse(products, fetched, flt)} :
               last' = [op |-> "GET /recommendations",
                        req |-> [limit |-> limit, category |-> category],
                        fault |-> flt, fetched |-> resp.fetched,
                        status |-> resp.status, detail |-> resp.detail, body |-> resp.body]
    /\ UNCHANGED <<products, recommendations, nextId>>
    /\ UNCHANGED conn

(***************************************************************************)
(* GET /recommendations/{product_id}                                       *)
(***************************************************************************)
\* The outcomes of the inline lookup of get_product_recommendations:
\*   found:  find_one answered with docs (none or one document)
\*   caught: the inner `except Exception` caught the failure
\*   raised: an exception that is no ValueError left the lookup
Found(docs) == [res |-> "found", docs |-> docs]

Caught == [res |-> "caught", docs |-> {}]

Raised == [res |-> "raised", docs |-> {}]

\* find_one({"_id": int(id)}): OverflowError for a key BSON cannot encode.
IntLookup(prods, key, flt) ==
    IF ~Encodable(key) \/ flt # Null THEN Raised ELSE Found(FindOne(prods, key))

\* ObjectId(id) and find_one inside `try ... except Exception`.
OidLookup(prods, id, flt) ==
    IF OidParses(id) /\ flt = Null THEN Found(FindOne(prods, PyObjectId(id))) ELSE Caught

\* int() first and, on ValueError, ObjectId().
InlineLookup(prods, id, flt) ==
    IF IntParses(id) THEN IntLookup(prods, PyInt(id), flt) ELSE OidLookup(prods, id, flt)

\* A filter that matches every recommendation.
TargetFilter_Any(recs, product_id) == 1..Len(recs)

\* The positions of the recommendations whose target is the string product_id.
TargetFilter(recs, product_id) ==
    {i \in 1..Len(recs) : recs[i].target_product_id = product_id}

\* find({"target_product_id": product_id}).sort("score", -1).limit(n)
FindByTarget(recs, product_id, limit) ==
    {Take(s, limit) : s \in SortedByScore(recs, TargetFilter(recs, product_id))}

\* An enrichment that fails when no record was built.
Enriched_RaisesOnEmpty(body) == [raised |-> body = <<>>, body |-> body]

Enriched(body) == [raised |-> FALSE, body |-> body]

EnrichmentRaised == [raised |-> TRUE, body |-> <<>>]

\* One turn of the enrichment loop of get_product_recommendations: look is
\* the lookup of rec's product, rest the outcome of the turns after it.
SpecificEntry(look, rec, rest) ==
    IF look.res = "raised" THEN EnrichmentRaised
    ELSE IF look.docs = {} THEN rest
    ELSE IF ~ModelsValid(rec, TheDoc(look.docs)) \/ rest.raised THEN EnrichmentRaised
    ELSE Enriched(<<ResponseOf(rec, TheDoc(look.docs))>> \o rest.body)

RECURSIVE EnrichSpecific(_, _, _, _)
\* The enrichment loop from the k-th fetched recommendation on; its lookup
\* is store call 2 + k of the request.
EnrichSpecific(prods, fetched, flt, k) ==
    IF k > Len(fetched) THEN Enriched(<<>>)
    ELSE SpecificEntry(InlineLookup(prods, fetched[k].product_id, FaultAt(flt, 2 + k)),
                       fetched[k], EnrichSpecific(prods, fetched, flt, k + 1))

\* The response of get_product_recommendations: target is the lookup of the
\* path identifier (store call 1), the fetch is store call 2, rich the
\* outcome of the enrichment loop.
GetProductRecommendationsResponse(target, fetched, flt, rich) ==
    IF target.res = "raised"
    THEN [status |-> 500, detail |-> "Internal server error", body |-> <<>>, fetched |-> <<>>]
    ELSE IF target.res = "caught"
    THEN [status |-> 400, detail |-> "Invalid product ID format", body |-> <<>>, fetched |-> <<>>]
    ELSE IF target.docs = {}
    THEN [status |-> 404, detail |-> "Product not found", body |-> <<>>, fetched |-> <<>>]
    ELSE IF FaultAt(flt, 2) # Null
    THEN [status |-> 500, detail |-> "Internal server error", body |-> <<>>, fetched |-> <<>>]
    ELSE IF rich.raised
    THEN [status |-> 500, detail |-> "Internal server error", body |-> <<>>, fetched |-> fetched]
    ELSE [status |-> 200, detail |-> "", body |-> rich.body, fetched |-> fetched]

get_product_recommendations ==
    /\ Idle
    /\ \E product_id \in PathIds :
         \E fetched \in FindByTarget(recommendations, product_id, 10) :
           \E flt \in Faults(2 + Len(fetched), {ConnectionRefused}) :
             \E resp \in {GetProductRecommendationsResponse(
                              InlineLookup(products, product_id, FaultAt(flt, 1)),
                              fetched, flt, EnrichSpecific(products, fetched, flt, 1))} :
               last' = [op |-> "GET /recommendations/{product_id}",
                        req |-> [product_id |-> product_id],
                        fault |-> flt, fetched |-> resp.fetched,
                        status |-> resp.status, detail |-> resp.detail, body |-> resp.body]
    /\ UNCHANGED <<products, recommendations, nextId>>
    /\ UNCHANGED conn

(***************************************************************************)
(* POST /recommendations                                                   *)
(***************************************************************************)
NotFoundText == <<"n", "o", "t", " ", "f", "o", "u", "n", "d">>

InvalidText == <<"i", "n", "v", "a", "l", "i", "d">>

\* The status create_recommendation derives from str(e).lower().
StatusFromLower(text) ==
    IF Contains(text, NotFoundText) THEN 404
    ELSE IF Contains(text, InvalidText) THEN 400
    ELSE 500

\* The status create_recommendation derives from the text of the exception
\* that ProductCRUD.get_product_by_id raised.
ValidationStatus(msg) == StatusFromLower(Lower(msg))

ProductFailureDetail(code) ==
    IF code = 404 THEN "Recommended product not found"
    ELSE IF code = 400 THEN "Invalid product ID format"
    ELSE "Error validating product"

TargetFailureDetail(code) ==
    IF code = 404 THEN "Target product not found"
    ELSE IF code = 400 THEN "Invalid target product ID format"
    ELSE "Error validating target product"

\* "specific" if request.target_product_id else "general"
RecommendationType(target) == IF Truthy(target) THEN "specific" ELSE "general"

\* `if request.target_product_id:` whether the target product is validated.
TargetChecked(target) == Truthy(target)

\* The document insert_one stores: the given fields and the generated _id.
Stored(doc, id) ==
    [_id |-> id, product_id |-> doc.product_id, target_product_id |-> doc.target_product_id,
     score |-> doc.score, reason |-> doc.reason, type |-> doc.type,
     created_at |-> doc.created_at, category |-> doc.category, updated_at |-> doc.updated_at]

\* recommendation_doc with the category left out of the product's fields.
RecommendationDoc_NoCategory(req, recommended_product) ==
    [product_id |-> req.product_id, target_product_id |-> req.target_product_id,
     score |-> req.score, reason |-> req.reason,
     type |-> RecommendationType(req.target_product_id),
     created_at |-> Stamp, category |-> "", updated_at |-> Null]

\* recommendation_doc of create_recommendation.
RecommendationDoc(req, recommended_product) ==
    [product_id |-> req.product_id, target_product_id |-> req.target_product_id,
     score |-> req.score, reason |-> req.reason,
     type |-> RecommendationType(req.target_product_id),
     created_at |-> Stamp, category |-> recommended_product.category, updated_at |-> Null]

\* The store calls of a request: 1 the product lookup, 2 the target lookup,
\* 3 the insert.  Call k was issued by the accessor call with outcome r.
Issued(r, k) == IF r.calls = 1 THEN {k} ELSE {}

\* The outcome of a request: the response, the collection afterwards and
\* the store calls issued.
Outcome(code, detail, body, recs, calls) ==
    [status |-> code, detail |-> detail, body |-> body, recs |-> recs, calls |-> calls]

\* A rejection that empties the collection.
Rejected_Clears(code, detail, recs, calls) == Outcome(code, detail, <<>>, <<>>, calls)

Rejected(code, detail, recs, calls) == Outcome(code, detail, <<>>, recs, calls)

\* The handler from the insert on: doc is inserted under id (the last store
\* call), then the response models are built.
InsertAndRespond(recs, doc, id, prod, flt, calls) ==
    IF flt # Null THEN Rejected(500, "Internal server error", recs, calls)
    ELSE IF ~ProductInfoValid(prod)
    THEN Rejected(500, "Internal server error", Append(recs, Stored(doc, id)), calls)
    ELSE Outcome(201, "Recommendation created successfully",
                 <<RecommendationResponse(KeyStr(id), prod, doc.score, doc.reason, doc.created_at)>>,
                 Append(recs, Stored(doc, id)), calls)

\* The outcome of the target validation: what get_product_by_id gave, or a
\* success without a store call when the target is not validated.
TargetValidation(prods, target, flt) ==
    IF TargetChecked(target) THEN ProductCRUD_get_product_by_id(prods, target, flt)
    ELSE [ok |-> TRUE, docs |-> {}, err |-> Null, calls |-> 0]

\* create_recommendation: the request model rejects the request before the
\* handler runs (FastAPI answers 422); otherwise rp is the outcome of the
\* product validation, rt that of the target validation, and the insert
\* follows.
CreateRecommendationOutcome(recs, nid, req, rp, rt, flt) ==
    IF ~CreateRecommendationRequestValid(req)
    THEN Rejected(422, "Unprocessable Entity", recs, {})
    ELSE IF ~rp.ok
    THEN Rejected(ValidationStatus(rp.err), ProductFailureDetail(ValidationStatus(rp.err)),
                  recs, Issued(rp, 1))
    ELSE IF ~rt.ok
    THEN Rejected(ValidationStatus(rt.err), TargetFailureDetail(ValidationStatus(rt.err)),
                  recs, {1} \cup Issued(rt, 2))
    ELSE InsertAndRespond(recs, RecommendationDoc(req, TheDoc(rp.docs)), GeneratedId(nid),
                          TheDoc(rp.docs), FaultAt(flt, 3), {1, 3} \cup Issued(rt, 2))

\* The request built from its parts.
CreateRecommendationRequest(product_id, target, payload) ==
    [product_id |-> product_id, target_product_id |-> target,
     score |-> payload.score, reason |-> payload.reason]

\* The fault is placed at a store call the request issues; the text of a
\* failing insert is not read by the handler.
FaultHits(flt, out) ==
    /\ flt.at # 0 => flt.at \in out.calls
    /\ flt.at = 3 => flt.msg = ConnectionRefused

create_recommendation ==
    /\ Idle
    /\ \E product_id \in PostProductIds, flt \in Faults(3, StoreErrors) :
         \E rp \in {ProductCRUD_get_product_by_id(products, product_id, FaultAt(flt, 1))} :
           \E target \in PostTargets :
             \E rt \in {TargetValidation(products, target, FaultAt(flt, 2))} :
               \E req \in {CreateRecommendationRequest(product_id, target, p) : p \in Payloads} :
                 \E out \in {CreateRecommendationOutcome(recommendations, nextId, req, rp, rt, flt)} :
                   /\ FaultHits(flt, out)
                   /\ (out.recs # recommendations) => nextId <= MaxRecs
                   /\ recommendations' = out.recs
                   /\ nextId' = IF out.recs # recommendations THEN nextId + 1 ELSE nextId
                   /\ last' = [op |-> "POST /recommendations", req |-> req, fault |-> flt,
                               fetched |-> <<>>, status |-> out.status, detail |-> out.detail,
                               body |-> out.body, calls |-> out.calls]
    /\ UNCHANGED products
    /\ UNCHANGED conn

(***************************************************************************)
(* The Recommendation Accessor, called directly (example_crud_usage.py).   *)
(***************************************************************************)
\* RecommendationCRUD.create_recommendation(data): insert_one, no check of
\* the fields.
RecommendationCRUD_create_recommendation ==
    /\ Idle
    /\ nextId <= MaxRecs
    /\ \E doc \in CrudDocs, flt \in Faults(1, {ConnectionRefused}) :
         IF flt.at = 1
         THEN /\ last' = [op |-> "create", req |-> doc, fault |-> flt, ok |-> FALSE]
              /\ UNCHANGED <<recommendations, nextId>>
         ELSE /\ recommendations' = Append(recommendations, Stored(doc, GeneratedId(nextId)))
              /\ nextId' = nextId + 1
              /\ last' = [op |-> "create", req |-> doc, fault |-> flt, ok |-> TRUE]
    /\ UNCHANGED products
    /\ UNCHANGED conn

\* $set without the stamp.
ApplyUpdate_NoStamp(doc, update_data) ==
    [doc EXCEPT
       !.score = IF "score" \in DOMAIN update_data THEN update_data.score ELSE @,
       !.type = IF "type" \in DOMAIN update_data THEN update_data.type ELSE @]

\* {"$set": update_data} on one document, update_data holding updated_at.
ApplyUpdate(doc, update_data) ==
    [doc EXCEPT
       !.product_id = IF "product_id" \in DOMAIN update_data THEN update_data.product_id ELSE @,
       !.target_product_id = IF "target_product_id" \in DOMAIN update_data
                             THEN update_data.target_product_id ELSE @,
       !.score = IF "score" \in DOMAIN update_data THEN update_data.score ELSE @,
       !.reason = IF "reason" \in DOMAIN update_data THEN update_data.reason ELSE @,
       !.type = IF "type" \in DOMAIN update_data THEN update_data.type ELSE @,
       !.category = IF "category" \in DOMAIN update_data THEN update_data.category ELSE @,
       !.updated_at = Stamp]

\* update_one({"_id": key}, {"$set": update_data})
UpdateOne(recs, key, update_data) ==
    [i \in 1..Len(recs) |-> IF recs[i]._id = key THEN ApplyUpdate(recs[i], update_data)
                            ELSE recs[i]]

\* A delete that empties the collection.
DeleteOne_All(recs, key) == <<>>

\* delete_one({"_id": key})
DeleteOne(recs, key) == SelectSeq(recs, LAMBDA d : d._id # key)

\* matched_count > 0, deleted_count > 0, a document found
Matched(recs, key) == \E i \in 1..Len(recs) : recs[i]._id = key

\* The exception of the accessors that take a recommendation_id, "" when
\* none is raised: "Invalid recommendation ID format: ..." when ObjectId()
\* raises, the store's own when the call fails, "Recommendation not found
\* with ID: ..." when no document has that key.
RecommendationError(recs, id, flt) ==
    IF ~OidParses(id) THEN "invalid"
    ELSE IF flt.at = 1 THEN "storage"
    ELSE IF ~Matched(recs, PyObjectId(id)) THEN "not_found"
    ELSE ""

\* The store call is issued only for an identifier ObjectId() accepts.
RecommendationFaults(id) == IF OidParses(id) THEN Faults(1, {ConnectionRefused}) ELSE {NoFault}

\* RecommendationCRUD.update_recommendation(recommendation_id, update_data)
RecommendationCRUD_update_recommendation ==
    /\ Idle
    /\ \E id \in RecIdStrings, update_data \in CrudPatches :
         \E flt \in RecommendationFaults(id) :
           \E err \in {RecommendationError(recommendations, id, flt)} :
             /\ recommendations' = IF err = ""
                                   THEN UpdateOne(recommendations, PyObjectId(id), update_data)
                                   ELSE recommendations
             /\ last' = [op |-> "update", req |-> [id |-> id, update_data |-> update_data],
                         fault |-> flt, ok |-> err = "", err |-> err]
    /\ UNCHANGED <<products, nextId>>
    /\ UNCHANGED conn

\* RecommendationCRUD.delete_recommendation(recommendation_id)
RecommendationCRUD_delete_recommendation ==
    /\ Idle
    /\ \E id \in RecIdStrings :
         \E flt \in RecommendationFaults(id) :
           \E err \in {RecommendationError(recommendations, id, flt)} :
             /\ recommendations' = IF err = "" THEN DeleteOne(recommendations, PyObjectId(id))
                                   ELSE recommendations
             /\ last' = [op |-> "delete", req |-> [id |-> id], fault |-> flt,
                         ok |-> err = "", err |-> err]
    /\ UNCHANGED <<products, nextId>>
    /\ UNCHANGED conn

\* RecommendationCRUD.get_recommendation_by_id(recommendation_id)
RecommendationCRUD_get_recommendation_by_id ==
    /\ Idle
    /\ \E id \in RecIdStrings :
         \E flt \in RecommendationFaults(id) :
           \E err \in {RecommendationError(recommendations, id, flt)} :
             last' = [op |-> "get_by_id", req |-> [id |-> id], fault |-> flt,
                      ok |-> err = "", err |-> err,
                      result |-> IF err = ""
                                 THEN {r \in Range(recommendations) : r._id = PyObjectId(id)}
                                 ELSE {}]
    /\ UNCHANGED <<products, recommendations, nextId>>
    /\ UNCHANGED conn

\* A cursor that ignores skip.
Slice_NoSkip(s, skip, limit) == Take(s, limit)

\* cursor.skip(skip).limit(limit).to_list(limit), limit > 0.
Slice(s, skip, limit) ==
    IF skip >= Len(s) THEN <<>>
    ELSE SubSeq(s, skip + 1, IF skip + limit <= Len(s) THEN skip + limit ELSE Len(s))

\* The filter of get_all_recommendations: for a truthy category, that category.
AllFilter(recs, category) ==
    {i \in 1..Len(recs) : CategoryGiven(category) => recs[i].category = category}

\* find(query_filter).sort("score", -1).skip(skip).limit(limit)
FindAll(recs, limit, skip, category) ==
    {Slice(s, skip, limit) : s \in SortedByScore(recs, AllFilter(recs, category))}

\* RecommendationCRUD.get_all_recommendations(limit, skip, category)
RecommendationCRUD_get_all_recommendations ==
    /\ Idle
    /\ \E limit \in AccessorLimits, skip \in AccessorSkips, category \in Categories :
         \E found \in FindAll(recommendations, limit, skip, category) :
           \E flt \in Faults(1, {ConnectionRefused}) :
             last' = [op |-> "list_all",
                      req |-> [limit |-> limit, skip |-> skip, category |-> category],
                      fault |-> flt, ok |-> flt.at = 0,
                      result |-> IF flt.at = 0 THEN found ELSE <<>>]
    /\ UNCHANGED <<products, recommendations, nextId>>
    /\ UNCHANGED conn

\* RecommendationCRUD.get_recommendation_by_product(product_id, limit): the
\* same query as the endpoint's, an empty list when nothing matches.
RecommendationCRUD_get_recommendation_by_product ==
    /\ Idle
    /\ \E product_id \in AccessorTargets, limit \in AccessorLimits :
         \E found \in FindByTarget(recommendations, product_id, limit) :
           \E flt \in Faults(1, {ConnectionRefused}) :
             last' = [op |-> "list_by_target",
                      req |-> [product_id |-> product_id, limit |-> limit],
                      fault |-> flt, ok |-> flt.at = 0,
                      result |-> IF flt.at = 0 THEN found ELSE <<>>]
    /\ UNCHANGED <<products, recommendations, nextId>>
    /\ UNCHANGED conn

(***************************************************************************)
(* The environment: a product is deleted out of band.                      *)
(***************************************************************************)
DeleteProduct ==
    /\ Idle
    /\ Cardinality(InitialProducts) - Cardinality(products) < MaxDeleted
    /\ \E p \in products :
         /\ products' = products \ {p}
         /\ last' = [op |-> "delete product", req |-> [id |-> KeyStr(p._id)]]
    /\ UNCHANGED <<recommendations, nextId>>
    /\ UNCHANGED conn

\* The outcome of the last operation is handed to its caller; the next
\* operation starts after that.
Respond ==
    /\ ~Idle
    /\ last' = [op |-> "none"]
    /\ UNCHANGED <<products, recommendations, nextId>>
    /\ UNCHANGED conn

(***************************************************************************)
(* Specification.                                                          *)
(***************************************************************************)
\* The service after start-up: connected, the products loaded, no
\* recommendation stored yet.
Init ==
    /\ products = InitialProducts
    /\ recommendations = <<>>
    /\ nextId = 1
    /\ last = [op |-> "none"]
    /\ client = [id |-> 1, open |-> TRUE]
    /\ database = 1

Next ==
    \/ get_recommendations
    \/ get_product_recommendations
    \/ create_recommendation
    \/ RecommendationCRUD_create_recommendation
    \/ RecommendationCRUD_update_recommendation
    \/ RecommendationCRUD_delete_recommendation
    \/ RecommendationCRUD_get_recommendation_by_id
    \/ RecommendationCRUD_get_recommendation_by_product
    \/ RecommendationCRUD_get_all_recommendations
    \/ DeleteProduct
    \/ Respond

Spec == Init /\ [][Next]_vars

(***************************************************************************)
(* The notions the properties below are stated with.                       *)
(***************************************************************************)
\* A base-10 integer that fits 64 bits.
IsInt64String(s) == IntParses(s) /\ Encodable(PyInt(s))

\* A generated identifier: 24 hex digits.
IsHex24String(s) == OidParses(s)

\* The string parses under one of the two identifier formats.
WellFormed(s) == IsInt64String(s) \/ IsHex24String(s)

\* The native key of a well-formed string: the integer reading first.
NativeKey(s) == IF IsInt64String(s) THEN PyInt(s) ELSE PyObjectId(s)

\* A product is stored under the key the string stands for.
ProductExists(prods, s) == WellFormed(s) /\ FindOne(prods, NativeKey(s)) # {}

\* The last operation was the given HTTP operation and no store call failed.
Healthy(op) == last.op = op /\ last.fault = NoFault

(***************************************************************************)
(* Properties.                                                             *)
(***************************************************************************)
\* C1: GET /recommendations/{product_id} with a healthy store answers 400
\* when the identifier parses under neither format (64-bit integer, 24 hex
\* digits), 404 when it parses and no product has that key, 200 when a
\* product with that key exists; the identifier alone never leads to 500.
C1_StatusFollowsIdentifier ==
    Healthy("GET /recommendations/{product_id}") =>
        last.status = IF ~WellFormed(last.req.product_id) THEN 400
                      ELSE IF ~ProductExists(products, last.req.product_id) THEN 404
                      ELSE 200

\* The step is a POST /recommendations whose body the request model accepts
\* and during which no store call fails.
HealthyPostStep ==
    /\ last'.op = "POST /recommendations"
    /\ last'.fault = NoFault
    /\ CreateRecommendationRequestValid(last'.req)

\* What C2 says of a step that is a healthy POST.
C2_Expected ==
    /\ (WellFormed(last'.req.product_id) /\ ~ProductExists(products, last'.req.product_id))
           => /\ last'.status = 404
              /\ last'.detail = "Recommended product not found"
              /\ recommendations' = recommendations
    /\ ~WellFormed(last'.req.product_id)
           => /\ last'.status = 400
              /\ recommendations' = recommendations

\* C2: POST /recommendations with a well-formed product_id (an integer
\* string such as "999", or 24 hex digits) that refers to no product answers
\* 404 "Recommended product not found", with a malformed product_id it
\* answers 400, and nothing is inserted in either case.
C2_UnknownProductIs404 == [][HealthyPostStep => C2_Expected]_vars

\* The identifier strings the operations are given.
IdentifierSamples == PathIds \cup PostProductIds

\* What the resolver of the specification gives for s when the store
\* answers: the documents under its native key, or InvalidIdentifierFormat.
C3_AccessorAgrees(s) ==
    IF WellFormed(s)
    THEN ProductCRUD_get_product_by_id(products, s, Null)
             = ProductOrRaise(FindOne(products, NativeKey(s)), s)
    ELSE ProductCRUD_get_product_by_id(products, s, Null)
             = Raise(InvalidProductPrefix \o s, 0)

C3_InlineAgrees(s) ==
    IF WellFormed(s)
    THEN InlineLookup(products, s, Null) = Found(FindOne(products, NativeKey(s)))
    ELSE InlineLookup(products, s, Null) = Caught

\* C3: every path that looks up a product resolves the identifier the same
\* way, as a 64-bit integer first and as 24 hex digits next: a well-formed
\* string reaches the document under its native key, any other string fails
\* with the invalid-format error; a product stored under an integer key is
\* returned by get_product_by_id given that integer's string.
C3_SameResolutionEverywhere ==
    \A s \in IdentifierSamples : C3_AccessorAgrees(s) /\ C3_InlineAgrees(s)

HttpOperations ==
    {"GET /recommendations", "GET /recommendations/{product_id}", "POST /recommendations"}

\* The fixed details of a 500 response; none holds text of an exception.
GenericDetails ==
    {"Internal server error", "Error validating product", "Error validating target product"}

\* The store call that failed in the last operation was issued and is not a
\* lookup of list enrichment: the fetch of GET /recommendations; the product
\* lookup or the fetch of GET /recommendations/{product_id}; any store call
\* of POST /recommendations.
FailedOutsideEnrichment ==
    \/ last.op = "GET /recommendations" /\ last.fault.at = 1
    \/ /\ last.op = "GET /recommendations/{product_id}"
       /\ \/ /\ last.fault.at = 1
             /\ IntParses(last.req.product_id) \/ OidParses(last.req.product_id)
          \/ /\ last.fault.at = 2
             /\ InlineLookup(products, last.req.product_id, Null).res = "found"
             /\ InlineLookup(products, last.req.product_id, Null).docs # {}
    \/ last.op = "POST /recommendations" /\ last.fault.at \in last.calls

\* The identifiers the last request refers to products with.
ReferencedIds ==
    IF last.op = "GET /recommendations/{product_id}" THEN {last.req.product_id}
    ELSE IF last.op = "POST /recommendations"
    THEN {last.req.product_id} \cup ({last.req.target_product_id} \ {Null})
    ELSE {}

\* C4: in the three HTTP operations a failure of a store call made outside
\* list enrichment is answered with 500 and a fixed generic detail, never
\* with 400 or 404; 400 is answered only for a malformed identifier or a
\* request the request model rejects, 404 only when a referenced product is
\* absent, whatever text the identifier or the exception message holds.
C4_StatusNeverFromText ==
    last.op \in HttpOperations =>
        /\ FailedOutsideEnrichment => last.status = 500 /\ last.detail \in GenericDetails
        /\ last.status = 400 =>
              \/ \E s \in ReferencedIds : ~WellFormed(s)
              \/ last.op = "POST /recommendations" /\ ~CreateRecommendationRequestValid(last.req)
        /\ last.status = 404 =>
              \E s \in ReferencedIds : WellFormed(s) /\ ~ProductExists(products, s)

\* The last operation was a listing that fetched, with a healthy store, a
\* recommendation whose product is stored no more.
ListedDeletedProduct ==
    /\ last.op \in {"GET /recommendations", "GET /recommendations/{product_id}"}
    /\ last.fault = NoFault
    /\ \E i \in DOMAIN last.fetched : ~ProductExists(products, last.fetched[i].product_id)

\* The identifiers of the fetched recommendations whose product is stored,
\* in the order fetched.
SurvivingIds(fetched) ==
    LET kept == SelectSeq(fetched, LAMBDA rec : ProductExists(products, rec.product_id))
    IN  [i \in DOMAIN kept |-> KeyStr(kept[i]._id)]

\* C5: when a fetched recommendation references a deleted product, both
\* enriching listings answer 200 with that recommendation left out and
\* every other fetched recommendation whose product exists present, in the
\* order fetched.
C5_DeletedProductOmitted ==
    ListedDeletedProduct =>
        /\ last.status = 200
        /\ [i \in DOMAIN last.body |-> last.body[i].id] = SurvivingIds(last.fetched)

\* The last operation was a POST /recommendations answered with 201.
Created == last.op = "POST /recommendations" /\ last.status = 201

\* The document a POST answered with 201 has stored: the last one inserted.
CreatedDoc == recommendations[Len(recommendations)]

\* C6: a recommendation created through POST /recommendations is stored
\* with type "general" when target_product_id is null and with type
\* "specific" for any non-null target_product_id, the empty string included.
C6_TypeFollowsTarget ==
    Created =>
        CreatedDoc.type = IF last.req.target_product_id = Null THEN "general" ELSE "specific"

\* C7: POST /recommendations answers 201 only if product_id refers to an
\* existing product and, whenever target_product_id is non-null, that
\* refers to an existing product too; with an existing product, a non-null
\* target that is well formed but absent gives 404 and a malformed one 400;
\* only a null target skips the second validation.
C7_CreatedOnlyIfValidated ==
    (Healthy("POST /recommendations") /\ CreateRecommendationRequestValid(last.req)) =>
        /\ last.status = 201 =>
              /\ ProductExists(products, last.req.product_id)
              /\ last.req.target_product_id # Null
                    => ProductExists(products, last.req.target_product_id)
        /\ (last.status \notin {400, 404} /\ last.req.target_product_id # Null) =>
              /\ WellFormed(last.req.target_product_id)
              /\ ProductExists(products, last.req.target_product_id)
              /\ 2 \in last.calls

\* C8: POST /recommendations with a score outside [0, 1] or an empty reason
\* is answered 400 and no store call is issued for it.
C8_InvalidBodyIs400 ==
    (last.op = "POST /recommendations" /\ ~CreateRecommendationRequestValid(last.req)) =>
        last.status = 400 /\ last.calls = {}

\* C9: every stored recommendation has type "general" exactly when its
\* target_product_id is null, and type "specific" otherwise.
C9_TypeDeterminedByTarget ==
    \A i \in DOMAIN recommendations :
        recommendations[i].type =
            IF recommendations[i].target_product_id = Null THEN "general" ELSE "specific"

\* C10: every stored recommendation has a score between 0 and 1.
C10_StoredScoreInRange ==
    \A i \in DOMAIN recommendations :
        recommendations[i].score >= 0 /\ recommendations[i].score <= 10

\* C11: a recommendation stored by a POST /recommendations answered 201
\* has the category of the product its product_id refers to (not of the
\* target product), and the product field of the response carries that
\* product's fields.
C11_CategoryOfRecommendedProduct ==
    Created =>
        \E p \in FindOne(products, NativeKey(last.req.product_id)) :
            /\ CreatedDoc.category = p.category
            /\ last.body[1].product = ProductInfo(p)

\* A recommendation was created for a product and a target of different
\* categories.
C11_CreatedAcrossCategories ==
    /\ Created
    /\ last.req.product_id = HexB
    /\ last.req.target_product_id = HexA
    /\ CreatedDoc.category = "y"

\* The scores of a sequence of recommendations never increase.
NonIncreasing(result) ==
    \A i, j \in DOMAIN result : i < j => result[i].score >= result[j].score

\* result holds stored recommendations, each once, and a stored one that
\* passes the filter pass and is left out is left out by the limit alone:
\* the result is full and nothing in it has a smaller score.
TopOf(result, pass(_), limit) ==
    /\ Len(result) <= limit
    /\ \A i \in DOMAIN result :
          /\ pass(result[i])
          /\ \E j \in DOMAIN recommendations : recommendations[j] = result[i]
    /\ \A i, j \in DOMAIN result : i # j => result[i]._id # result[j]._id
    /\ \A j \in DOMAIN recommendations :
          (pass(recommendations[j]) /\ \A i \in DOMAIN result : result[i] # recommendations[j])
              => /\ Len(result) = limit
                 /\ \A i \in DOMAIN result : result[i].score >= recommendations[j].score

\* The recommendation query of GET /recommendations/{product_id} was answered.
TargetQueryAnswered ==
    /\ last.op = "GET /recommendations/{product_id}"
    /\ last.status = 200 \/ last.fetched # <<>>

\* C12: get_recommendation_by_product(X, limit) and the recommendation query
\* of GET /recommendations/{X} return only recommendations whose
\* target_product_id is the string X, in non-increasing score, at most limit
\* of them (10 for the endpoint), and the highest-scored ones in the store.
C12_ListByTarget ==
    /\ (last.op = "list_by_target" /\ last.ok) =>
          /\ NonIncreasing(last.result)
          /\ TopOf(last.result, LAMBDA r : r.target_product_id = last.req.product_id,
                   last.req.limit)
    /\ TargetQueryAnswered =>
          /\ NonIncreasing(last.fetched)
          /\ TopOf(last.fetched, LAMBDA r : r.target_product_id = last.req.product_id, 10)

\* Two recommendations of different scores target the same product and the
\* accessor, asked for one, returned the higher-scored one.
C12_HigherOfTwoReturned ==
    /\ last.op = "list_by_target" /\ last.ok /\ last.req.limit = 1
    /\ Len(last.result) = 1
    /\ \E j \in DOMAIN recommendations :
          /\ recommendations[j].target_product_id = last.req.product_id
          /\ recommendations[j].score < last.result[1].score

\* GET /recommendations was answered from a result of get_general_recommendations.
GeneralListed == last.op = "GET /recommendations" /\ last.status = 200

\* Every record of the response is built from a stored general recommendation.
BodyFromGeneral ==
    \A i \in DOMAIN last.body :
        \E j \in DOMAIN recommendations :
            /\ recommendations[j].type = "general"
            /\ KeyStr(recommendations[j]._id) = last.body[i].id

\* C13 as stated: get_general_recommendations never returns a
\* recommendation whose type is not "general" and, when a category is given
\* (any value other than none), never one of another category; GET
\* /recommendations holds no record built from a "specific" recommendation.
C13_AnyGivenCategoryFilters ==
    GeneralListed =>
        /\ \A i \in DOMAIN last.fetched :
              /\ last.fetched[i].type = "general"
              /\ last.req.category # NoCategory => last.fetched[i].category = last.req.category
        /\ BodyFromGeneral

\* C13, amended: the same, the category filter applying when a non-empty
\* category is given; an empty category string is treated as no category.
C13_OnlyGeneralListed ==
    GeneralListed =>
        /\ \A i \in DOMAIN last.fetched :
              /\ last.fetched[i].type = "general"
              /\ CategoryGiven(last.req.category)
                    => last.fetched[i].category = last.req.category
        /\ BodyFromGeneral

\* A listing by category returned a recommendation while the store held one
\* that is not general and one of another category.
C13_FilteredListing ==
    /\ GeneralListed
    /\ last.req.category = "x"
    /\ Len(last.fetched) = 1
    /\ \E j \in DOMAIN recommendations : recommendations[j].type # "general"
    /\ \E j \in DOMAIN recommendations : recommendations[j].category # "x"

\* No stored recommendation passes the filter.
NoneMatches(pass(_)) == \A j \in DOMAIN recommendations : ~pass(recommendations[j])

LimitRange == 1..100

\* C15: GET /recommendations accepts a limit in [1, 100] only: a listing
\* that is answered has a limit in that range and at most limit records, and
\* a limit outside the range is rejected without the store being queried.
C15_LimitWithinRange ==
    last.op = "GET /recommendations" =>
        /\ last.status = 200 =>
              /\ last.req.limit \in LimitRange
              /\ Len(last.fetched) <= last.req.limit
              /\ Len(last.body) <= last.req.limit
        /\ last.req.limit \notin LimitRange =>
              /\ last.status \in {400, 422}
              /\ last.fetched = <<>>

\* The step is a call of the accessor operation op during which no store
\* call fails.
AccessorStep(op) == last'.op = op /\ last'.fault = NoFault

\* The document after(doc) is doc with the fields of update_data written
\* and updated_at stamped, every other field as before.
UpdatedFrom(after, doc, update_data) ==
    /\ DOMAIN after = DOMAIN doc
    /\ \A f \in DOMAIN doc :
          after[f] = IF f = "updated_at" THEN Stamp
                     ELSE IF f \in DOMAIN update_data THEN update_data[f]
                     ELSE doc[f]

\* What C16 says of an update step.
C16_Expected ==
    IF ~IsHex24String(last'.req.id)
    THEN ~last'.ok /\ last'.err = "invalid" /\ recommendations' = recommendations
    ELSE IF ~Matched(recommendations, NativeKey(last'.req.id))
    THEN ~last'.ok /\ last'.err = "not_found" /\ recommendations' = recommendations
    ELSE /\ last'.ok
         /\ Len(recommendations') = Len(recommendations)
         /\ \A i \in DOMAIN recommendations :
               IF recommendations[i]._id = NativeKey(last'.req.id)
               THEN UpdatedFrom(recommendations'[i], recommendations[i], last'.req.update_data)
               ELSE recommendations'[i] = recommendations[i]

\* C16: update(id, partial_doc) with a malformed id or an id no
\* recommendation has fails (invalid format, respectively not found) and
\* leaves the collection unchanged; when a recommendation matches, exactly
\* that document gets the fields of partial_doc and updated_at stamped,
\* every other field and document is unchanged, and the call succeeds.
C16_UpdateExactlyOne == [][AccessorStep("update") => C16_Expected]_vars

\* An update succeeded with two recommendations stored: one carries the new
\* score and the stamp, the other was never updated.
C16_OneOfTwoUpdated ==
    /\ last.op = "update" /\ last.ok
    /\ Len(recommendations) = 2
    /\ \E i, j \in DOMAIN recommendations :
          /\ recommendations[i].score = 15 /\ recommendations[i].updated_at = Stamp
          /\ recommendations[j].updated_at = Null

\* The identifiers of the recommendations deleted so far: generated by the
\* store (every generated identifier was inserted) and stored no more.
DeletedIds ==
    {KeyStr(GeneratedId(n)) : n \in {k \in 1..(nextId - 1) :
                                      ~Matched(recommendations, GeneratedId(k))}}

\* A delete step succeeds exactly when a recommendation has the identifier,
\* and then removes that document and no other; otherwise it fails with not
\* found (invalid format for a malformed identifier) and removes nothing.
C17_DeleteStep ==
    AccessorStep("delete") =>
        IF IsHex24String(last'.req.id) /\ Matched(recommendations, NativeKey(last'.req.id))
        THEN /\ last'.ok
             /\ recommendations' =
                    SelectSeq(recommendations, LAMBDA r : r._id # NativeKey(last'.req.id))
             /\ Len(recommendations') = Len(recommendations) - 1
        ELSE /\ ~last'.ok
             /\ last'.err = IF IsHex24String(last'.req.id) THEN "not_found" ELSE "invalid"
             /\ recommendations' = recommendations

\* After the delete, get_by_id, update and delete of the identifier fail
\* with not found, and the identifier is never stored again.
C17_GoneForGood ==
    /\ (/\ last'.op \in {"get_by_id", "update", "delete"}
        /\ last'.fault = NoFault
        /\ last'.req.id \in DeletedIds)
           => ~last'.ok /\ last'.err = "not_found"
    /\ \A id \in DeletedIds : ~Matched(recommendations', NativeKey(id))

\* The recommendations a listing step returned.
ListedIds ==
    IF last'.op \in {"list_all", "list_by_target"}
    THEN {KeyStr(last'.result[i]._id) : i \in DOMAIN last'.result}
    ELSE IF last'.op \in {"GET /recommendations", "GET /recommendations/{product_id}"}
    THEN {KeyStr(last'.fetched[i]._id) : i \in DOMAIN last'.fetched}
             \cup {last'.body[i].id : i \in DOMAIN last'.body}
    ELSE {}

\* C17: delete(id) succeeds only if a recommendation had that id and removes
\* exactly that document, and fails with not found when none was deleted;
\* after a successful delete(id), get_by_id(id), update(id, _) and a second
\* delete(id) fail with not found and no later listing holds the deleted
\* recommendation.
C17_DeleteIsFinal ==
    [][C17_DeleteStep /\ C17_GoneForGood /\ ListedIds \cap DeletedIds = {}]_vars

\* A recommendation was created and deleted, and a later get_by_id of its
\* identifier failed with not found.
C17_LookupAfterDelete ==
    /\ last.op = "get_by_id"
    /\ last.req.id \in DeletedIds
    /\ last.err = "not_found"

\* list_all answered.
AllListed == last.op = "list_all" /\ last.ok

\* The stored recommendations list_all is asked for, the category counting
\* as requested when asked(category) holds.
AskedFor(asked(_)) ==
    {j \in DOMAIN recommendations :
        asked(last.req.category) => recommendations[j].category = last.req.category}

\* The stored recommendations the result leaves out.
Omitted(matching) ==
    {j \in matching : \A i \in DOMAIN last.result : last.result[i] # recommendations[j]}

Smaller(a, b) == IF a <= b THEN a ELSE b

\* The result is the slice [skip, skip + limit) of matching by score
\* descending: non-increasing, of the slice's length, made of distinct
\* matching recommendations, at most skip omitted ones score strictly higher
\* than a returned one and no more than the rest after the slice score
\* strictly lower than a returned one.
SliceOfMatching(matching) ==
    /\ NonIncreasing(last.result)
    /\ Len(last.result) <= last.req.limit
    /\ Len(last.result) =
          IF Cardinality(matching) <= last.req.skip THEN 0
          ELSE Smaller(last.req.limit, Cardinality(matching) - last.req.skip)
    /\ \A i \in DOMAIN last.result :
          \E j \in matching : recommendations[j] = last.result[i]
    /\ \A i, j \in DOMAIN last.result : i # j => last.result[i]._id # last.result[j]._id
    /\ Cardinality({j \in Omitted(matching) :
                       \E i \in DOMAIN last.result :
                           recommendations[j].score > last.result[i].score})
          <= last.req.skip
    /\ Cardinality({j \in Omitted(matching) :
                       \E i \in DOMAIN last.result :
                           recommendations[j].score < last.result[i].score})
          <= IF Cardinality(matching) <= last.req.skip THEN 0
             ELSE Cardinality(matching) - last.req.skip - Len(last.result)

\* C18 as stated: list_all(limit, skip, category) returns the slice
\* [skip, skip + limit) of the recommendations of the category, whenever a
\* category is given, by score descending.
C18_SliceOfGivenCategory ==
    AllListed => SliceOfMatching(AskedFor(LAMBDA c : c # NoCategory))

\* C18: list_all(limit, skip, category) returns the slice [skip, skip + limit)
\* of the recommendations matching the category filter, sorted by score
\* descending, the filter applying when a non-empty category is given: the
\* result is non-increasing, has at most limit elements, each of the
\* requested category, and no omitted matching element outside the skipped
\* prefix scores strictly higher than a returned one.
C18_SliceOfMatching ==
    AllListed => SliceOfMatching(AskedFor(CategoryGiven))

\* list_all skipped the higher-scored of two recommendations of the
\* requested category and returned the other.
C18_SecondOfTwo ==
    /\ AllListed
    /\ CategoryGiven(last.req.category)
    /\ last.req.skip = 1
    /\ Len(last.result) = 1
    /\ Cardinality(AskedFor(CategoryGiven)) = 2
    /\ \E j \in Omitted(AskedFor(CategoryGiven)) :
          recommendations[j].score > last.result[1].score

\* The k-th product lookup of the enrichment loop of the last listing
\* request met a storage error; the loop's lookups follow the fetch, which
\* is store call 1 of GET /recommendations and store call 2 of
\* GET /recommendations/{product_id}.
LookupFaulted(k) ==
    /\ last.op \in {"GET /recommendations", "GET /recommendations/{product_id}"}
    /\ k \in DOMAIN last.fetched
    /\ last.fault.at = (IF last.op = "GET /recommendations" THEN 1 ELSE 2) + k

\* Every fetched recommendation carries a score a response record accepts.
FetchedScoresValid ==
    \A i \in DOMAIN last.fetched : RecommendationResponseValid(last.fetched[i].score)

\* C19: in both listing endpoints a failed lookup of a recommendation's
\* product (here a storage error on the lookup) drops that entry only:
\* the request is answered 200, never 500, without that entry.
C19_LookupFailureDropsEntry ==
    \A k \in 1..MaxRecs :
        (LookupFaulted(k) /\ FetchedScoresValid)
            => /\ last.status = 200
               /\ \A i \in DOMAIN last.body : last.body[i].id # KeyStr(last.fetched[k]._id)

(***************************************************************************)
(* POST /recommendations step by step: the handler gives up control at     *)
(* each await (the product lookup, the target lookup, the insert), and     *)
(* another request may delete a product in between.  The store is healthy. *)
(* While the request is in flight, last holds the handler's locals and the *)
(* products deleted since its first store call.                            *)
(***************************************************************************)
InFlight == last.op = "POST in flight"

\* The target validation not reached yet.
NotReached == [ok |-> TRUE, docs |-> {}, err |-> Null, calls |-> 0]

\* The response of the request, with the products deleted while it ran.
PostResponse(req, out, deleted) ==
    [op |-> "POST /recommendations", req |-> req, fault |-> NoFault, fetched |-> <<>>,
     status |-> out.status, detail |-> out.detail, body |-> out.body,
     calls |-> out.calls, deleted |-> deleted]

\* The request model and `await product_crud.get_product_by_id(request.product_id)`.
post_validate_product ==
    /\ Idle
    /\ nextId <= MaxRecs
    /\ \E product_id \in PostProductIds, target \in PostTargets :
         \E rp \in {ProductCRUD_get_product_by_id(products, product_id, Null)} :
           \E req \in {CreateRecommendationRequest(product_id, target, p) : p \in Payloads} :
             last' = IF CreateRecommendationRequestValid(req) /\ rp.ok
                     THEN [op |-> "POST in flight", pc |-> "target", req |-> req,
                           rp |-> rp, rt |-> NotReached, deleted |-> {}]
                     ELSE PostResponse(req, CreateRecommendationOutcome(
                              recommendations, nextId, req, rp, NotReached, NoFault), {})
    /\ UNCHANGED <<products, recommendations, nextId>>
    /\ UNCHANGED conn

\* `if request.target_product_id: await product_crud.get_product_by_id(...)`
post_validate_target ==
    /\ InFlight
    /\ last.pc = "target"
    /\ \E rt \in {TargetValidation(products, last.req.target_product_id, Null)} :
         last' = IF rt.ok
                 THEN [last EXCEPT !.pc = "insert", !.rt = rt]
                 ELSE PostResponse(last.req, CreateRecommendationOutcome(
                          recommendations, nextId, last.req, last.rp, rt, NoFault),
                          last.deleted)
    /\ UNCHANGED <<products, recommendations, nextId>>
    /\ UNCHANGED conn

\* recommendation_doc, `await recommendation_crud.create_recommendation(...)`
\* and the response.
post_insert ==
    /\ InFlight
    /\ last.pc = "insert"
    /\ \E out \in {CreateRecommendationOutcome(recommendations, nextId, last.req,
                                               last.rp, last.rt, NoFault)} :
         /\ recommendations' = out.recs
         /\ nextId' = IF out.recs # recommendations THEN nextId + 1 ELSE nextId
         /\ last' = PostResponse(last.req, out, last.deleted)
    /\ UNCHANGED products
    /\ UNCHANGED conn

\* Another request deletes a product while the POST is in flight.
DeleteProductInFlight ==
    /\ InFlight
    /\ Cardinality(InitialProducts) - Cardinality(products) < MaxDeleted
    /\ \E p \in products :
         /\ products' = products \ {p}
         /\ last' = [last EXCEPT !.deleted = @ \cup {KeyStr(p._id)}]
    /\ UNCHANGED <<recommendations, nextId>>
    /\ UNCHANGED conn

\* The response is handed to the caller once the handler has returned.
RespondAfterReturn == ~InFlight /\ Respond

RaceNext ==
    \/ post_validate_product
    \/ post_validate_target
    \/ post_insert
    \/ DeleteProduct
    \/ DeleteProductInFlight
    \/ RespondAfterReturn

RaceSpec == Init /\ [][RaceNext]_vars

\* The step is the insert of an in-flight POST.
InsertStep == InFlight /\ last.pc = "insert" /\ last'.op = "POST /recommendations"

\* The products the in-flight request refers to: product_id, and the target
\* when one was validated.
Referenced ==
    {last.req.product_id} \cup
        (IF TargetChecked(last.req.target_product_id)
         THEN {last.req.target_product_id} ELSE {})

\* C20: the insert of POST /recommendations does not look at the products
\* again: once the validations have passed it answers 201 and persists the
\* recommendation with the requested product_id and target_product_id,
\* whatever was deleted since, so that a product deleted between the checks
\* and the insert leaves the new recommendation referring to no existing
\* product; when no product was deleted in between, every referenced
\* product exists at the moment of the insert.
C20_InsertIgnoresDeletion ==
    [][InsertStep =>
          /\ last'.status = 201
          /\ Len(recommendations') = Len(recommendations) + 1
          /\ SubSeq(recommendations', 1, Len(recommendations)) = recommendations
          /\ recommendations'[Len(recommendations')].product_id = last.req.product_id
          /\ recommendations'[Len(recommendations')].target_product_id
                 = last.req.target_product_id
          /\ \A id \in Referenced :
                ProductExists(products, id) <=> id \notin last.deleted
      ]_vars

\* A POST was answered 201 although the product it recommends was deleted
\* between its existence check and the insert: the stored recommendation
\* refers to no existing product.
C20_OrphanCreated ==
    /\ Created
    /\ "deleted" \in DOMAIN last
    /\ last.req.product_id \in last.deleted
    /\ ~ProductExists(products, last.req.product_id)
    /\ CreatedDoc.product_id = last.req.product_id

(***************************************************************************)
(* The connection manager (app/db.py): connect_to_mongo,                   *)
(* close_mongo_connection and the accessor factories, called as in         *)
(* example_crud_usage.py (connect, factories, close, connect again).       *)
(***************************************************************************)
\* How many times connect_to_mongo is called.
MaxConnects == 4

\* self.client = None
NoClient == [id |-> 0, open |-> FALSE]

\* self.database = None
NoDatabase == 0

\* connect_to_database: a new client replaces the old one; the ping
\* succeeds or raises, and only after it succeeded is the database set.
connect_to_mongo ==
    /\ Idle
    /\ client.id < MaxConnects
    /\ \E pinged \in BOOLEAN :
         /\ client' = [id |-> client.id + 1, open |-> TRUE]
         /\ database' = IF pinged THEN client.id + 1 ELSE database
         /\ last' = [op |-> "connect_to_mongo", ok |-> pinged]
    /\ UNCHANGED <<products, recommendations, nextId>>

\* close_database_connection: `if self.client: self.client.close()`; the
\* database field is left as it is.
close_mongo_connection ==
    /\ Idle
    /\ client' = IF client = NoClient THEN client ELSE [client EXCEPT !.open = FALSE]
    /\ last' = [op |-> "close_mongo_connection", ok |-> TRUE]
    /\ UNCHANGED <<products, recommendations, nextId, database>>

\* `if not database: raise Exception("Database not connected. ...")`: None
\* is false; the truth value of a database object is the driver's: true, or
\* a NotImplementedError where the driver refuses truth value testing.
FactoryOutcomes(db) ==
    IF db = NoDatabase THEN {"Database not connected"}
    ELSE {"accessor", "NotImplementedError"}

get_recommendation_crud ==
    /\ Idle
    /\ \E outcome \in FactoryOutcomes(database) :
         last' = [op |-> "get_recommendation_crud", outcome |-> outcome]
    /\ UNCHANGED <<products, recommendations, nextId>>
    /\ UNCHANGED conn

get_product_crud ==
    /\ Idle
    /\ \E outcome \in FactoryOutcomes(database) :
         last' = [op |-> "get_product_crud", outcome |-> outcome]
    /\ UNCHANGED <<products, recommendations, nextId>>
    /\ UNCHANGED conn

\* The process before start-up: nothing connected yet.
ConnInit ==
    /\ products = InitialProducts
    /\ recommendations = <<>>
    /\ nextId = 1
    /\ last = [op |-> "none"]
    /\ client = NoClient
    /\ database = NoDatabase

ConnNext ==
    \/ connect_to_mongo
    \/ close_mongo_connection
    \/ get_recommendation_crud
    \/ get_product_crud
    \/ Respond

ConnSpec == ConnInit /\ [][ConnNext]_vars

\* The store connection is established: the last connect succeeded and its
\* client has not been closed.
Established == client.open /\ database = client.id

\* The store connection is not established: no connect has succeeded yet
\* (none has run, or it failed), or the connection that succeeded was
\* closed.  (After a failed reconnect over a connection that is still open
\* neither holds, and nothing is asked of the factories.)
NotEstablished == database = NoDatabase \/ (database = client.id /\ ~client.open)

\* A factory was called.
FactoryCalled == last.op \in {"get_recommendation_crud", "get_product_crud"}

\* C21: get_recommendation_crud and get_product_crud raise "Database not
\* connected" in every state in which the connection is not established
\* (before a connect, after a failed connect, after the close) and return
\* an accessor only between a successful connect and the close.
C21_FactoriesFollowConnection ==
    FactoryCalled =>
        /\ NotEstablished => last.outcome = "Database not connected"
        /\ last.outcome = "accessor" => ~NotEstablished
\* The step is a POST /recommendations that ended in 400, 404 or 500 at the
\* validation of the product or of the target: the insert was not issued.
ValidationFailedStep ==
    /\ last'.op = "POST /recommendations"
    /\ last'.status \in {400, 404, 500}
    /\ 3 \notin last'.calls

\* The step added one document at the end of the collection and changed no
\* other.
OneAdded ==
    /\ Len(recommendations') = Len(recommendations) + 1
    /\ SubSeq(recommendations', 1, Len(recommendations)) = recommendations

\* C22: a POST /recommendations that ends in 400, 404 or 500 because the
\* product or target validation failed leaves the recommendations
\* collection as it was; a successful POST adds exactly one recommendation
\* and changes no other; GET /recommendations and
\* GET /recommendations/{product_id} modify neither collection; no HTTP
\* operation modifies the products collection.
C22_StoreChangesOnlyOnCreate ==
    [][/\ ValidationFailedStep => recommendations' = recommendations
       /\ (last'.op = "POST /recommendations" /\ last'.status = 201) => OneAdded
       /\ last'.op \in {"GET /recommendations", "GET /recommendations/{product_id}"}
              => recommendations' = recommendations
       /\ last'.op \in HttpOperations => products' = products
      ]_vars

\* A POST was rejected with 404 at the validation of its target while a
\* recommendation was stored.
C22_RejectedAtTarget ==
    /\ last.op = "POST /recommendations"
    /\ last.status = 404
    /\ 2 \in last.calls
    /\ Len(recommendations) >= 1

\* Two identifier strings resolve to the same product.
SameProduct(s, t) == WellFormed(s) /\ WellFormed(t) /\ NativeKey(s) = NativeKey(t)

\* The stored recommendations as POST /recommendations creates them for a
\* target: product_id and target_product_id of 24 hex digits, a score of the
\* request model; both products still exist.
CreatedWithTarget ==
    {j \in DOMAIN recommendations :
        /\ IsHex24String(recommendations[j].product_id)
        /\ recommendations[j].target_product_id # Null
        /\ IsHex24String(recommendations[j].target_product_id)
        /\ ScoreInRange(recommendations[j].score)
        /\ ProductExists(products, recommendations[j].product_id)
        /\ ProductExists(products, recommendations[j].target_product_id)}

\* The stored general recommendations as POST /recommendations creates them
\* without a target, their product still existing.
CreatedWithoutTarget ==
    {j \in DOMAIN recommendations :
        /\ IsHex24String(recommendations[j].product_id)
        /\ ~Truthy(recommendations[j].target_product_id)
        /\ recommendations[j].type = "general"
        /\ ScoreInRange(recommendations[j].score)
        /\ ProductExists(products, recommendations[j].product_id)}

\* Every stored recommendation carries a score a response record accepts.
StoredScoresValid ==
    \A j \in DOMAIN recommendations : RecommendationResponseValid(recommendations[j].score)

\* The body of the last response holds the record of rec, its product.id
\* denoting rec's product.
Returned(rec) ==
    \E i \in DOMAIN last.body :
        /\ last.body[i].id = KeyStr(rec._id)
        /\ SameProduct(last.body[i].product.id, rec.product_id)

\* The general recommendations that rank at least as high as rec.
Outranking(rec) ==
    {j \in DOMAIN recommendations :
        /\ recommendations[j] # rec
        /\ recommendations[j].type = "general"
        /\ recommendations[j].score >= rec.score}

\* C23: a recommendation created with product P and target T, both still
\* existing, is returned (200, product.id denoting P) by
\* GET /recommendations/T' for every identifier T' that resolves to the
\* same product as T (fewer than 10 recommendations target T); one created
\* without a target is returned by GET /recommendations while fewer than
\* limit general recommendations outrank it.
C23_CreateListRoundTrip ==
    /\ (Healthy("GET /recommendations/{product_id}") /\ StoredScoresValid) =>
          \A j \in CreatedWithTarget :
              SameProduct(last.req.product_id, recommendations[j].target_product_id)
                  => last.status = 200 /\ Returned(recommendations[j])
    /\ (Healthy("GET /recommendations") /\ StoredScoresValid
            /\ last.req.category = NoCategory) =>
          \A j \in CreatedWithoutTarget :
              Cardinality(Outranking(recommendations[j])) < last.req.limit
                  => last.status = 200 /\ Returned(recommendations[j])

====
